---- MODULE Spec2Model ----
(***************************************************************************)
(* Model of recipe_api_production.py: the page pipeline                    *)
(* (extract_recipe_data and its field extractors) and the vision pipeline  *)
(* (extract_recipe_from_image with its overload retry loop).               *)
(*                                                                         *)
(* Text is a sequence of one-character strings, so that strip, replace,    *)
(* split, capitalize and len are computed as Python computes them.  A      *)
(* provider reply is a sequence of lexical tokens (see Tokens).            *)
(***************************************************************************)
EXTENDS Integers, Sequences, FiniteSets, TLC

VARIABLES
    fn,         \* entry point of this invocation
    arg,        \* its input
    pc,         \* position inside the entry point
    ret,        \* outcome: nothing yet, a returned value, or a raised exception
    attempt,    \* loop variable of the retry loop (0-based)
    wait_time,  \* seconds the pending time.sleep will block
    message,    \* the provider's reply text, once a call succeeded
    response,   \* what fetching the page gave: an error, or the parsed document
    log         \* provider calls and sleeps performed so far, in order

vars == <<fn, arg, pc, ret, attempt, wait_time, message, response, log>>

----------------------------------------------------------------------------
(* Bounds of the model *)

MaxHostLen == 5
MaxReplyLen == 4
MaxItems == 2

----------------------------------------------------------------------------
(* Python str operations on sequences of characters *)

RECURSIVE LStrip(_)
LStrip(s) ==
    IF s = <<>> THEN s
    ELSE IF Head(s) = " " THEN LStrip(Tail(s)) ELSE s

RECURSIVE RStrip(_)
RStrip(s) ==
    IF s = <<>> THEN s
    ELSE IF s[Len(s)] = " " THEN RStrip(SubSeq(s, 1, Len(s) - 1)) ELSE s

Strip(s) == RStrip(LStrip(s))

StartsWith(s, p) == Len(s) >= Len(p) /\ SubSeq(s, 1, Len(p)) = p

EndsWith(s, p) == Len(s) >= Len(p) /\ SubSeq(s, Len(s) - Len(p) + 1, Len(s)) = p

Drop(s, n) == SubSeq(s, n + 1, Len(s))

DropLast(s, n) == SubSeq(s, 1, Len(s) - n)

\* str.replace(old, new): leftmost non-overlapping occurrences, left to right
RECURSIVE Replace(_, _, _)
Replace(s, old, new) ==
    IF s = <<>> THEN s
    ELSE IF StartsWith(s, old) THEN new \o Replace(Drop(s, Len(old)), old, new)
    ELSE <<Head(s)>> \o Replace(Tail(s), old, new)

\* str.split(sep)[0]: the text before the first sep
RECURSIVE SplitFirst(_, _)
SplitFirst(s, sep) ==
    IF s = <<>> THEN s
    ELSE IF Head(s) = sep THEN <<>>
    ELSE <<Head(s)>> \o SplitFirst(Tail(s), sep)

Upper(c) ==
    CASE c = "a" -> "A" [] c = "w" -> "W" [] c = "e" -> "E" [] OTHER -> c

Lower(c) ==
    CASE c = "A" -> "a" [] c = "W" -> "w" [] c = "E" -> "e" [] OTHER -> c

\* str.capitalize(): first character upper-cased, the rest lower-cased
Capitalize(s) ==
    IF s = <<>> THEN s
    ELSE <<Upper(Head(s))>> \o [i \in 1..(Len(s) - 1) |-> Lower(s[i + 1])]

\* all sequences over alphabet of length 0..n
RECURSIVE SeqsUpTo(_, _)
SeqsUpTo(alphabet, n) ==
    IF n = 0 THEN {<<>>}
    ELSE LET shorter == SeqsUpTo(alphabet, n - 1)
         IN  shorter \cup {Append(s, c) : s \in shorter, c \in alphabet}

----------------------------------------------------------------------------
(* Exceptions and outcomes *)

\* origin: raised by the engine itself with one of its own messages, or by a
\* library (requests, the provider SDK, json, the interpreter).
\* manual: str(e) contains "Manual Entry" or "Scan Recipe".
\* overloaded: str(e).lower() contains "overloaded".
Exc(origin, text, manual, overloaded) ==
    [origin |-> origin, text |-> text, manual |-> manual, overloaded |-> overloaded]

NoExc == Exc("none", "", FALSE, FALSE)

NoValue == <<>>

Pending == [kind |-> "none", val |-> NoValue, exc |-> NoExc]

Return(v) == [kind |-> "return", val |-> v, exc |-> NoExc]

Raise(e) == [kind |-> "raise", val |-> NoValue, exc |-> e]

----------------------------------------------------------------------------
(* Vision pipeline: extract_recipe_from_image *)

max_retries == 5

retry_delay == 3

MsgInstallAnthropic ==
    Exc("engine", "Please install anthropic package: pip install anthropic", FALSE, FALSE)

MsgNoApiKey ==
    Exc("engine", "ANTHROPIC_API_KEY environment variable not set", FALSE, FALSE)

MsgServiceBusy ==
    Exc("engine", "The AI service is very busy right now with too many requests. This usually happens during peak hours (business hours in the US). Please try again in 10-30 minutes, or use Manual Entry to add your recipe now. The scanner works best early morning or late evening!", TRUE, FALSE)

\* the message embeds the text of the JSONDecodeError it wraps
MsgCouldNotParse ==
    Exc("engine", "Could not parse recipe data from AI response: {e}", FALSE, FALSE)

\* exceptions client.messages.create can raise, told apart by what str(e) contains
ProviderErrors ==
    { Exc("library", "overloaded_error", FALSE, TRUE),
      Exc("library", "authentication_error", FALSE, FALSE),
      Exc("library", "Connection error.", FALSE, FALSE) }

\* recipe_data['source'] = author on a JSON value that is no object
ItemAssignmentError == Exc("library", "TypeError", FALSE, FALSE)

\* message is read after a loop that never bound it
UnboundMessageError == Exc("library", "UnboundLocalError", FALSE, FALSE)

\* Lexical tokens of a reply: FENCE is the three-backquote code fence, json the
\* word json, then white space, a JSON object, a JSON value that is no object
Tokens == {"FENCE", "json", " ", "{}", "[]"}

Replies == SeqsUpTo(Tokens, MaxReplyLen)

Authors == {<<"A", "n", "a">>, <<>>}

CallEv(ok, e) == [ev |-> "call", ok |-> ok, exc |-> e, secs |-> 0]

SleepEv(secs) == [ev |-> "sleep", ok |-> FALSE, exc |-> NoExc, secs |-> secs]

ShouldRetryAnyError(e, a) == a < max_retries - 1

ShouldRetryUnbounded(e, a) == e.overloaded

ShouldRetryThroughLast(e, a) == e.overloaded /\ a < max_retries

\* line 447: retry only an overload, and not after the last attempt
ShouldRetry(e, a) == e.overloaded /\ a < max_retries - 1

WaitTimeLinear(a) == retry_delay * (a + 1)

\* line 449
WaitTime(a) == retry_delay * (2 ^ a)

\* lines 455-462: what the handler raises when it does not retry
FinalError(e) == IF e.overloaded THEN MsgServiceBusy ELSE e

\* lines 467-475
StripFences(text) ==
    LET t1 == Strip(text)
        t2 == IF StartsWith(t1, <<"FENCE", "json">>) THEN Drop(t1, 2) ELSE t1
        t3 == IF StartsWith(t2, <<"FENCE">>) THEN Drop(t2, 1) ELSE t2
        t4 == IF EndsWith(t3, <<"FENCE">>) THEN DropLast(t3, 1) ELSE t3
    IN  Strip(t4)

\* json.loads of a token sequence: one JSON value and nothing else
JsonLoads(text) ==
    IF text = <<"{}">> THEN "dict"
    ELSE IF text = <<"[]">> THEN "list"
    ELSE "JSONDecodeError"

\* lines 464-483
ParseResponse(text, author) ==
    LET parsed == JsonLoads(StripFences(text))
    IN  IF parsed = "JSONDecodeError" THEN Raise(MsgCouldNotParse)
        ELSE IF parsed = "dict" THEN Return([payload |-> "{}", source |-> author])
        ELSE Raise(ItemAssignmentError)

ScanInit ==
    /\ fn = "scan"
    /\ arg \in [author : Authors, api_key : BOOLEAN, installed : BOOLEAN]
    /\ pc = "start"
    /\ ret = Pending
    /\ attempt = 0
    /\ wait_time = 0
    /\ message = <<>>
    /\ response = <<>>
    /\ log = <<>>

\* lines 369-386
ScanStart ==
    /\ fn = "scan" /\ pc = "start"
    /\ IF ~arg.installed
       THEN pc' = "done" /\ ret' = Raise(MsgInstallAnthropic)
       ELSE IF ~arg.api_key
       THEN pc' = "done" /\ ret' = Raise(MsgNoApiKey)
       ELSE pc' = "call" /\ ret' = ret
    /\ UNCHANGED <<fn, arg, attempt, wait_time, message, response, log>>

\* lines 387-442 and 464-483: the call succeeds, the loop is left and the reply
\* is parsed
CallProviderOk ==
    /\ fn = "scan" /\ pc = "call"
    /\ \E m \in Replies :
        /\ message' = m
        /\ log' = Append(log, CallEv(TRUE, NoExc))
        /\ ret' = ParseResponse(m, arg.author)
    /\ pc' = "done"
    /\ UNCHANGED <<fn, arg, attempt, wait_time, response>>

\* lines 387-439, 444-462: the call raises
CallProviderError ==
    /\ fn = "scan" /\ pc = "call"
    /\ \E e \in ProviderErrors :
        /\ log' = Append(log, CallEv(FALSE, e))
        /\ IF ShouldRetry(e, attempt)
           THEN /\ wait_time' = WaitTime(attempt)
                /\ pc' = "sleep"
                /\ ret' = ret
           ELSE /\ wait_time' = wait_time
                /\ pc' = "done"
                /\ ret' = Raise(FinalError(e))
    /\ UNCHANGED <<fn, arg, attempt, message, response>>

\* lines 451-452 and 386: block, then the next iteration of range(max_retries)
Sleep ==
    /\ fn = "scan" /\ pc = "sleep"
    /\ log' = Append(log, SleepEv(wait_time))
    /\ attempt' = attempt + 1
    /\ IF attempt + 1 < max_retries
       THEN pc' = "call" /\ ret' = ret
       ELSE pc' = "done" /\ ret' = Raise(UnboundMessageError)
    /\ UNCHANGED <<fn, arg, wait_time, message, response>>

ScanNext ==
    \/ ScanStart
    \/ CallProviderOk
    \/ CallProviderError
    \/ Sleep

ScanSpec == ScanInit /\ [][ScanNext]_vars

----------------------------------------------------------------------------
(* Claims about the retry loop of extract_recipe_from_image *)

IsCall(e) == e.ev = "call"

IsSleep(e) == e.ev = "sleep"

CallsOf(l) == SelectSeq(l, IsCall)

SleepsOf(l) == SelectSeq(l, IsSleep)

RECURSIVE SumSecs(_)
SumSecs(l) == IF l = <<>> THEN 0 ELSE Head(l).secs + SumSecs(Tail(l))

AllOverloaded(l) == \A i \in 1..Len(l) : ~l[i].ok /\ l[i].exc.overloaded

Overloaded5 == Len(CallsOf(log)) = 5 /\ AllOverloaded(CallsOf(log))

C1_Bounded ==
    /\ Len(CallsOf(log)) <= 5
    /\ (pc = "done" /\ Overloaded5) => ret = Raise(MsgServiceBusy)
    /\ Overloaded5 => pc = "done"

\* steps taken so far, counted so that every step of the invocation adds to it
Progress == Len(log) + (CASE pc = "start" -> 0 [] pc = "done" -> 2 [] OTHER -> 1)

\* C1: whatever the provider answers, one invocation makes at most 5 provider
\* calls and always terminates (it is never stuck before its end, every step
\* moves it forward, and it has ended after at most 11 steps); when all 5 calls
\* report overload it ends at once, raising the fixed peak-hour congestion
\* message, and makes no 6th call.
C1_AtMostFiveCallsAndTerminates ==
    /\ [](fn = "scan" =>
            /\ C1_Bounded
            /\ Progress <= 11
            /\ pc = "done" \/ ENABLED ScanNext)
    /\ [][fn = "scan" => Progress' > Progress]_vars

C1_Witness == pc = "done" /\ Overloaded5 /\ ret = Raise(MsgServiceBusy)

\* C2: a provider call is followed by anything (a pause, a further call) only if
\* it failed with an overload error; an error that is no overload error ends the
\* invocation in the same step, raised unchanged, at whichever attempt it occurs;
\* a successful call is followed by no call.
C2_RetryOnlyAfterOverload ==
    fn = "scan" =>
        /\ \A k \in 1..Len(log) :
              (IsCall(log[k]) /\ k < Len(log)) =>
                  /\ ~log[k].ok /\ log[k].exc.overloaded
                  /\ IsSleep(log[k + 1])
        /\ \A k \in 1..Len(log) :
              (IsCall(log[k]) /\ ~log[k].ok /\ ~log[k].exc.overloaded) =>
                  /\ k = Len(log)
                  /\ pc = "done"
                  /\ ret = Raise(log[k].exc)
        /\ \A k \in 1..Len(log) :
              (IsCall(log[k]) /\ log[k].ok) => (k = Len(log) /\ pc = "done")

C2_Witness ==
    /\ pc = "done"
    /\ Len(CallsOf(log)) = 3
    /\ \E e \in ProviderErrors :
          /\ ~e.overloaded
          /\ log[Len(log)] = CallEv(FALSE, e)
          /\ ret = Raise(e)

\* the reply of a finished invocation parses as a JSON object
ReplyIsObject == JsonLoads(StripFences(message)) = "dict"

OverloadCall == CallEv(FALSE, Exc("library", "overloaded_error", FALSE, TRUE))

TwoOverloadsThenSuccess ==
    /\ pc = "done"
    /\ Len(CallsOf(log)) = 3
    /\ AllOverloaded(SubSeq(CallsOf(log), 1, 2))
    /\ CallsOf(log)[3].ok

\* C3: every pause comes right after a provider call and is followed by the next
\* provider call, and the pause after the failed attempt with 0-based index i
\* lasts 3 * 2^i seconds; overload on attempts 1 and 2 and success on attempt 3
\* gives the waits 3 s then 6 s, exactly 3 provider calls, and the parsed record
\* (the reply's JSON object with the source attached) as the result.
C3_BackoffBetweenCalls ==
    fn = "scan" =>
        /\ \A k \in 1..Len(log) :
              IsSleep(log[k]) =>
                  /\ k > 1 /\ IsCall(log[k - 1])
                  /\ k < Len(log) => IsCall(log[k + 1])
                  /\ k = Len(log) => pc = "call"
                  /\ log[k].secs = 3 * (2 ^ (Len(CallsOf(SubSeq(log, 1, k))) - 1))
        /\ TwoOverloadsThenSuccess =>
              /\ log = <<OverloadCall, SleepEv(3), OverloadCall, SleepEv(6), CallEv(TRUE, NoExc)>>
              /\ ReplyIsObject => ret = Return([payload |-> "{}", source |-> arg.author])
              /\ ret.kind = "return" => ReplyIsObject

C3_Witness ==
    /\ TwoOverloadsThenSuccess
    /\ SleepsOf(log) = <<SleepEv(3), SleepEv(6)>>
    /\ ret = Return([payload |-> "{}", source |-> arg.author])

WorstCase == pc = "done" /\ Overloaded5

----------------------------------------------------------------------------
(* Parsed documents *)

IngredientsNotFound == <<"I", "n", "g", "r", "e", "d", "i", "e", "n", "t", "s", " ", "n", "o", "t", " ", "f", "o", "u", "n", "d">>

InstructionsNotFound == <<"I", "n", "s", "t", "r", "u", "c", "t", "i", "o", "n", "s", " ", "n", "o", "t", " ", "f", "o", "u", "n", "d">>

RecipeLiteral == <<"R", "e", "c", "i", "p", "e">>

\* An entry of a JSON list.  t is its JSON type; s its text when it is a string;
\* tt and ts are the type and the text of its "text" property when it is an
\* object ("absent" when the object has no such property).
Item(t, s, tt, ts) == [t |-> t, s |-> s, tt |-> tt, ts |-> ts]

StrItem(s) == Item("str", s, "absent", <<>>)

NumItem == Item("num", <<>>, "absent", <<>>)

DictItem(tt, ts) == Item("dict", <<>>, tt, ts)

\* The value of a property of the embedded block: absent, a string, a non-zero
\* number, or a list of entries.
Value(t, s, items) == [t |-> t, s |-> s, items |-> items]

Absent == Value("absent", <<>>, <<>>)

StrValue(s) == Value("str", s, <<>>)

NumValue == Value("num", <<>>, <<>>)

ListValue(items) == Value("list", <<>>, items)

\* Python truth of a property value read with dict.get
Truthy(v) ==
    \/ v.t = "num"
    \/ v.t = "str" /\ v.s # <<>>
    \/ v.t = "list" /\ v.items # <<>>

\* Python truth of the "text" property of a step object
TextTruthy(i) == i.tt = "num" \/ (i.tt = "str" /\ i.ts # <<>>)

RecipeObject(type, name, ri, rs) ==
    [type |-> type, name |-> name, recipeIngredient |-> ri, recipeInstructions |-> rs]

NoObject == RecipeObject("Other", Absent, Absent, Absent)

\* The first script of type application/ld+json.  shape: "none" (no such script),
\* "malformed" (json.loads raises), "scalar" (a JSON string or number),
\* "emptylist", "listscalar" (a list whose first entry is no object), "object",
\* "listobject" (a list whose first entry is the object).
JsonLd(shape, obj) == [shape |-> shape, obj |-> obj]

Element(present, s) == [present |-> present, s |-> s]

NoElement == Element(FALSE, <<>>)

\* og_title: the og:title meta tag and its content attribute ("" when the tag
\* has none); h1, title: the first such element and its text;
\* ingredient_containers, instruction_containers: for each element whose class
\* matches, the texts of the li elements inside it.
Soup(ld, og, h1, title, ing, ins) ==
    [ld |-> ld, og_title |-> og, h1 |-> h1, title |-> title,
     ingredient_containers |-> ing, instruction_containers |-> ins]

----------------------------------------------------------------------------
(* Field extractors *)

\* lines 91-97 (and 242-248, 282-288): the block every extractor reads, or
\* nothing when there is no script or reading it raises inside the try
JsonLdData(soup) ==
    IF soup.ld.shape \in {"object", "listobject"}
    THEN [found |-> TRUE, data |-> soup.ld.obj]
    ELSE [found |-> FALSE, data |-> NoObject]

\* lines 88-118
extract_title(soup) ==
    LET ld == JsonLdData(soup)
    IN  IF ld.found /\ ld.data.type = "Recipe" /\ Truthy(ld.data.name)
        THEN ld.data.name
        ELSE IF soup.og_title.present /\ soup.og_title.s # <<>>
        THEN StrValue(soup.og_title.s)
        ELSE IF soup.h1.present
        THEN StrValue(Strip(soup.h1.s))
        ELSE IF soup.title.present
        THEN StrValue(Strip(soup.title.s))
        ELSE StrValue(RecipeLiteral)

RECURSIVE Flatten(_)
Flatten(containers) ==
    IF containers = <<>> THEN <<>> ELSE Head(containers) \o Flatten(Tail(containers))

\* lines 258-265 / 307-314: the stripped li texts longer than minLen, over all
\* containers in document order
RECURSIVE KeepLong(_, _)
KeepLong(texts, minLen) ==
    IF texts = <<>> THEN <<>>
    ELSE LET text == Strip(Head(texts))
         IN  IF text # <<>> /\ Len(text) > minLen
             THEN <<StrItem(text)>> \o KeepLong(Tail(texts), minLen)
             ELSE KeepLong(Tail(texts), minLen)

Range(l) == {l[i] : i \in 1..Len(l)}

\* lines 267-273 / 316-322: first occurrences, in order
RECURSIVE Dedup(_)
Dedup(l) ==
    IF l = <<>> THEN <<>>
    ELSE LET before == Dedup(SubSeq(l, 1, Len(l) - 1))
         IN  IF l[Len(l)] \in Range(before) THEN before ELSE Append(before, l[Len(l)])

AttributeError == Exc("library", "AttributeError", FALSE, FALSE)

TypeError == Exc("library", "TypeError", FALSE, FALSE)

\* line 252 on a list: [ing.strip() for ing in ingredients if ing.strip()]
RECURSIVE StripNonEmpty(_)
StripNonEmpty(items) ==
    IF items = <<>> THEN <<>>
    ELSE LET text == Strip(Head(items).s)
         IN  IF text # <<>>
             THEN <<StrItem(text)>> \o StripNonEmpty(Tail(items))
             ELSE StripNonEmpty(Tail(items))

\* line 252 on a string: the comprehension runs over its characters
CharItems(s) == [i \in 1..Len(s) |-> StrItem(<<s[i]>>)]

\* lines 249-254: ok when the comprehension ran to its end, with the list it
\* built; otherwise the value left bound to ingredients when the except clause
\* swallowed the error
ReadRecipeIngredient(v) ==
    IF v.t = "str" THEN [ok |-> TRUE, items |-> StripNonEmpty(CharItems(v.s)), isList |-> TRUE]
    ELSE IF v.t = "list" /\ \A i \in 1..Len(v.items) : v.items[i].t = "str"
    THEN [ok |-> TRUE, items |-> StripNonEmpty(v.items), isList |-> TRUE]
    ELSE [ok |-> FALSE, items |-> v.items, isList |-> v.t = "list"]

DedupOrPlaceholder(items, placeholder) ==
    IF Dedup(items) # <<>> THEN Dedup(items) ELSE <<StrItem(placeholder)>>

\* lines 237-275
extract_ingredients(soup) ==
    LET ld == JsonLdData(soup)
        ri == ld.data.recipeIngredient
        useLd == ld.found /\ ld.data.type = "Recipe" /\ Truthy(ri)
        read == ReadRecipeIngredient(ri)
        found == KeepLong(Flatten(soup.ingredient_containers), 2)
        ingredients == IF useLd THEN read.items \o found ELSE found
    IN  IF useLd /\ read.ok THEN Return(read.items)
        ELSE IF useLd /\ ~read.isList
        THEN IF found # <<>> THEN Raise(AttributeError) ELSE Raise(TypeError)
        ELSE IF \E i \in 1..Len(ingredients) : ingredients[i].t = "dict"
        THEN Raise(TypeError)
        ELSE Return(DedupOrPlaceholder(ingredients, IngredientsNotFound))

\* lines 291-298: the entries appended to instructions, and whether walking the
\* steps raised (a step object whose text is no string)
RECURSIVE WalkSteps(_, _)
WalkSteps(steps, acc) ==
    IF steps = <<>> THEN [ok |-> TRUE, items |-> acc]
    ELSE LET step == Head(steps)
         IN  IF step.t = "dict" /\ TextTruthy(step)
             THEN IF step.tt = "str"
                  THEN WalkSteps(Tail(steps), Append(acc, StrItem(Strip(step.ts))))
                  ELSE [ok |-> FALSE, items |-> acc]
             ELSE IF step.t = "str"
             THEN WalkSteps(Tail(steps), Append(acc, StrItem(Strip(step.s))))
             ELSE WalkSteps(Tail(steps), acc)

ReadRecipeInstructions(v) ==
    IF v.t = "list" THEN WalkSteps(v.items, <<>>)
    ELSE IF v.t = "str" THEN [ok |-> TRUE, items |-> <<StrItem(Strip(v.s))>>]
    ELSE [ok |-> TRUE, items |-> <<>>]

\* lines 277-324
extract_instructions(soup) ==
    LET ld == JsonLdData(soup)
        rs == ld.data.recipeInstructions
        useLd == ld.found /\ ld.data.type = "Recipe" /\ Truthy(rs)
        read == ReadRecipeInstructions(rs)
        found == KeepLong(Flatten(soup.instruction_containers), 5)
        instructions == IF useLd THEN read.items \o found ELSE found
    IN  IF useLd /\ read.ok /\ read.items # <<>> THEN Return(read.items)
        ELSE Return(DedupOrPlaceholder(instructions, InstructionsNotFound))

----------------------------------------------------------------------------
(* Page pipeline: extract_recipe_data *)

MsgTimeout ==
    Exc("engine", "The website took too long to respond. Please try again or use Manual Entry.", TRUE, FALSE)

MsgConnection ==
    Exc("engine", "Could not connect to the website. Check your internet connection or try a different URL.", FALSE, FALSE)

MsgBlocked ==
    Exc("engine", "This website is blocking automated access. Please use 'Manual Entry' or 'Scan Recipe' to add this recipe!", TRUE, FALSE)

MsgNotFound ==
    Exc("engine", "Recipe not found at this URL. Please check the link and try again.", FALSE, FALSE)

MsgHttpError ==
    Exc("engine", "Website returned error {status_code}. Please try a different URL.", FALSE, FALSE)

MsgUnsupported ==
    Exc("engine", "This website is blocking automated access or uses a format we don't support. Please use 'Manual Entry' or 'Scan Recipe' to add this recipe!", TRUE, FALSE)

MsgCouldNotExtract ==
    Exc("engine", "Could not extract recipe from {netloc}. This site may block scraping or use a format we don't support.", FALSE, FALSE)

\* What lines 26-30 give: kind "ok" with the parsed document, or the class of
\* the exception requests raised (status for an HTTPError, exc for an exception
\* of requests that is none of the three classes handled by name).
Fetched(kind, status, exc, soup) ==
    [kind |-> kind, status |-> status, exc |-> exc, soup |-> soup]

\* lines 33-34
PageSource(netloc) ==
    Capitalize(SplitFirst(Replace(netloc, <<"w", "w", "w", ".">>, <<>>), "."))

HasEntriesIgnoringPlaceholder(list, placeholder) == list # <<>>

\* lines 52-53
HasEntries(list, placeholder) == list # <<>> /\ list # <<StrItem(placeholder)>>

\* lines 81-86
GenericHandler(e) == IF e.manual THEN e ELSE MsgCouldNotExtract

\* lines 70-79
HttpErrorHandler(status) ==
    IF status = 403 THEN MsgBlocked
    ELSE IF status = 404 THEN MsgNotFound
    ELSE MsgHttpError

\* lines 36-62, run on a fetched document
BuildRecipe(netloc, soup) ==
    LET title == extract_title(soup)
        ingredients == extract_ingredients(soup)
        instructions == extract_instructions(soup)
    IN  IF ingredients.kind = "raise" THEN Raise(GenericHandler(ingredients.exc))
        ELSE IF instructions.kind = "raise" THEN Raise(GenericHandler(instructions.exc))
        ELSE IF \/ ~HasEntries(ingredients.val, IngredientsNotFound)
                \/ ~HasEntries(instructions.val, InstructionsNotFound)
        THEN Raise(GenericHandler(MsgUnsupported))
        ELSE Return([netloc |-> netloc,
                     source |-> PageSource(netloc),
                     title |-> title,
                     ingredients |-> ingredients.val,
                     instructions |-> instructions.val])

\* lines 17-86
extract_recipe_data(netloc, fetched) ==
    IF fetched.kind = "ok" THEN BuildRecipe(netloc, fetched.soup)
    ELSE IF fetched.kind = "Timeout" THEN Raise(MsgTimeout)
    ELSE IF fetched.kind = "ConnectionError" THEN Raise(MsgConnection)
    ELSE IF fetched.kind = "HTTPError" THEN Raise(HttpErrorHandler(fetched.status))
    ELSE Raise(GenericHandler(fetched.exc))

----------------------------------------------------------------------------
(* Inputs *)

Salt == <<"s", "a", "l", "t">>

SaltPadded == <<" ", "s", "a", "l", "t", " ">>

Ab == <<"a", "b">>

Stir == <<"S", "t", "i", "r">>

MixWell == <<"M", "i", "x", " ", "w", "e", "l", "l">>

MixWellPadded == <<" ", "M", "i", "x", " ", "w", "e", "l", "l", " ">>

Pie == <<"P", "i", "e">>

Tart == <<"T", "a", "r", "t">>

CakePadded == <<" ", "C", "a", "k", "e", " ">>

Soup2 == <<"S", "o", "u", "p">>

BrokenShapes == {"none", "malformed", "scalar", "emptylist", "listscalar"}

ObjectShapes == {"object", "listobject"}

Lists(entries) == {ListValue(l) : l \in SeqsUpTo(entries, MaxItems)}

\* li texts of the matching containers: nothing, one container, or two
\* containers of at most one li each
Containers(texts) ==
    {<<>>}
      \cup {<<l>> : l \in SeqsUpTo(texts, MaxItems)}
      \cup {<<l1, l2>> : l1 \in SeqsUpTo(texts, 1), l2 \in SeqsUpTo(texts, 1)}

NoContainers == <<>>

NameValues == {Absent, StrValue(<<>>), StrValue(Pie), NumValue}

TitleLds ==
    {JsonLd(sh, NoObject) : sh \in BrokenShapes}
      \cup {JsonLd(sh, RecipeObject(ty, n, Absent, Absent)) :
              sh \in ObjectShapes, ty \in {"Recipe", "Other"}, n \in NameValues}

TitleSoups ==
    {Soup(ld, og, h1, ti, NoContainers, NoContainers) :
        ld \in TitleLds,
        og \in {NoElement, Element(TRUE, <<>>), Element(TRUE, Tart)},
        h1 \in {NoElement, Element(TRUE, <<>>), Element(TRUE, CakePadded)},
        ti \in {NoElement, Element(TRUE, <<" ">>), Element(TRUE, Soup2)}}

IngredientEntries ==
    {StrItem(<<" ">>), StrItem(Salt), StrItem(SaltPadded), StrItem(IngredientsNotFound),
     NumItem, DictItem("str", Salt)}

IngredientValues ==
    Lists(IngredientEntries) \cup {Absent, StrValue(<<"a", " ", "b">>), NumValue}

IngredientLds ==
    {JsonLd(sh, NoObject) : sh \in BrokenShapes \cup ObjectShapes}
      \cup {JsonLd(sh, RecipeObject("Recipe", Absent, ri, Absent)) :
              sh \in ObjectShapes, ri \in IngredientValues}

IngredientSoups ==
    {Soup(ld, NoElement, NoElement, NoElement, c, NoContainers) :
        ld \in IngredientLds, c \in Containers({Ab, Salt, SaltPadded})}

StepEntries ==
    {StrItem(<<" ">>), StrItem(MixWell), StrItem(MixWellPadded), StrItem(InstructionsNotFound),
     NumItem, DictItem("absent", <<>>), DictItem("str", MixWell), DictItem("num", <<>>)}

InstructionValues ==
    Lists(StepEntries) \cup {Absent, StrValue(MixWellPadded), NumValue}

InstructionLds ==
    {JsonLd(sh, NoObject) : sh \in BrokenShapes \cup ObjectShapes}
      \cup {JsonLd(sh, RecipeObject("Recipe", Absent, Absent, rs)) :
              sh \in ObjectShapes, rs \in InstructionValues}

InstructionSoups ==
    {Soup(ld, NoElement, NoElement, NoElement, NoContainers, c) :
        ld \in InstructionLds, c \in Containers({Stir, MixWell, MixWellPadded})}

\* documents a fetch can give
PageIngredientValues ==
    {Absent, NumValue,
     ListValue(<<StrItem(<<" ">>)>>),
     ListValue(<<StrItem(SaltPadded)>>),
     ListValue(<<StrItem(IngredientsNotFound)>>),
     ListValue(<<DictItem("str", Salt)>>)}

PageInstructionValues ==
    {Absent,
     StrValue(<<" ">>),
     ListValue(<<StrItem(MixWell)>>),
     ListValue(<<StrItem(InstructionsNotFound)>>),
     ListValue(<<DictItem("num", <<>>)>>)}

PageLds ==
    {JsonLd("none", NoObject), JsonLd("malformed", NoObject)}
      \cup {JsonLd("object", RecipeObject("Recipe", StrValue(Pie), ri, rs)) :
              ri \in PageIngredientValues, rs \in PageInstructionValues}

PageSoups ==
    {Soup(ld, NoElement, Element(TRUE, CakePadded), NoElement, ing, ins) :
        ld \in PageLds,
        ing \in {NoContainers, <<<<Salt>>>>},
        ins \in {NoContainers, <<<<MixWell>>>>}}

NoSoup == Soup(JsonLd("none", NoObject), NoElement, NoElement, NoElement, NoContainers, NoContainers)

FetchOutcomes ==
    {Fetched("ok", 200, NoExc, soup) : soup \in PageSoups}
      \cup {Fetched(k, 0, NoExc, NoSoup) : k \in {"Timeout", "ConnectionError"}}
      \cup {Fetched("HTTPError", st, NoExc, NoSoup) : st \in {403, 404, 500}}
      \cup {Fetched("RequestException", 0, Exc("library", "InvalidURL", m, FALSE), NoSoup) :
              m \in BOOLEAN}

HostChars == {"w", ".", "a"}

Hosts == SeqsUpTo(HostChars, MaxHostLen)

----------------------------------------------------------------------------
(* The page pipeline and the field extractors as invocations *)

PageInit ==
    /\ fn = "page"
    /\ arg \in {[netloc |-> h] : h \in Hosts}
    /\ pc = "start"
    /\ ret = Pending
    /\ attempt = 0
    /\ wait_time = 0
    /\ message = <<>>
    /\ response = <<>>
    /\ log = <<>>

\* lines 17-86: one call of extract_recipe_data
ExtractRecipeData ==
    /\ fn = "page" /\ pc = "start"
    /\ \E fetched \in FetchOutcomes :
        /\ response' = fetched
        /\ ret' = extract_recipe_data(arg.netloc, fetched)
    /\ pc' = "done"
    /\ UNCHANGED <<fn, arg, attempt, wait_time, message, log>>

PageNext == ExtractRecipeData

PageSpec == PageInit /\ [][PageNext]_vars

FieldInit ==
    /\ \/ fn = "title" /\ arg \in TitleSoups
       \/ fn = "ingredients" /\ arg \in IngredientSoups
       \/ fn = "instructions" /\ arg \in InstructionSoups
    /\ pc = "start"
    /\ ret = Pending
    /\ attempt = 0
    /\ wait_time = 0
    /\ message = <<>>
    /\ response = <<>>
    /\ log = <<>>

ExtractTitle ==
    /\ fn = "title" /\ pc = "start"
    /\ ret' = Return(extract_title(arg))
    /\ pc' = "done"
    /\ UNCHANGED <<fn, arg, attempt, wait_time, message, response, log>>

ExtractIngredients ==
    /\ fn = "ingredients" /\ pc = "start"
    /\ ret' = extract_ingredients(arg)
    /\ pc' = "done"
    /\ UNCHANGED <<fn, arg, attempt, wait_time, message, response, log>>

ExtractInstructions ==
    /\ fn = "instructions" /\ pc = "start"
    /\ ret' = extract_instructions(arg)
    /\ pc' = "done"
    /\ UNCHANGED <<fn, arg, attempt, wait_time, message, response, log>>

FieldNext ==
    \/ ExtractTitle
    \/ ExtractIngredients
    \/ ExtractInstructions

FieldSpec == FieldInit /\ [][FieldNext]_vars

Init == ScanInit \/ PageInit \/ FieldInit

Next == ScanNext \/ PageNext \/ FieldNext

Spec == Init /\ [][Next]_vars

----------------------------------------------------------------------------
(* Claims about the page pipeline and the field extractors *)

Usable(list, placeholder) == list # <<>> /\ list # <<StrItem(placeholder)>>

PageDone == fn = "page" /\ pc = "done"

\* the lists the extractors gave for the fetched document are not both usable
GateMustFail ==
    /\ response.kind = "ok"
    /\ extract_ingredients(response.soup).kind = "return"
    /\ extract_instructions(response.soup).kind = "return"
    /\ \/ ~Usable(extract_ingredients(response.soup).val, IngredientsNotFound)
       \/ ~Usable(extract_instructions(response.soup).val, InstructionsNotFound)

\* C5: extract_recipe_data never returns a record whose ingredients list is
\* empty or the ingredients placeholder, or whose instructions list is empty or
\* the instructions placeholder; for a fetched page in one of those cases it
\* raises the fixed manual-fallback message, and that message reaches the
\* caller unchanged through the function's own exception handlers.
C5_GateRejectsUnusableLists ==
    PageDone =>
        /\ ret.kind = "return" =>
              /\ Usable(ret.val.ingredients, IngredientsNotFound)
              /\ Usable(ret.val.instructions, InstructionsNotFound)
        /\ GateMustFail => ret = Raise(MsgUnsupported)

C5_Witness ==
    /\ PageDone
    /\ response.kind = "ok"
    /\ extract_ingredients(response.soup) = Return(<<>>)
    /\ Usable(extract_instructions(response.soup).val, InstructionsNotFound)
    /\ ret = Raise(MsgUnsupported)

NoDuplicates(l) == \A i \in 1..Len(l) : \A j \in 1..Len(l) : i # j => l[i] # l[j]

ListExtractorDone == fn \in {"ingredients", "instructions"} /\ pc = "done"

\* the embedded list the running extractor reads, when the document holds a
\* Recipe block whose list for it is a non-empty list of non-blank strings
EmbeddedList ==
    IF fn = "ingredients" THEN JsonLdData(arg).data.recipeIngredient
    ELSE JsonLdData(arg).data.recipeInstructions

ValidEmbeddedList ==
    /\ JsonLdData(arg).found
    /\ JsonLdData(arg).data.type = "Recipe"
    /\ EmbeddedList.t = "list"
    /\ EmbeddedList.items # <<>>
    /\ \A i \in 1..Len(EmbeddedList.items) :
          EmbeddedList.items[i].t = "str" /\ Strip(EmbeddedList.items[i].s) # <<>>

\* C6: the list extract_ingredients or extract_instructions returns never holds
\* the same text twice, whichever strategy produced it, and for a valid embedded
\* list it is that list trimmed and reduced to first occurrences, in order.
C6_NoDuplicateEntries ==
    (ListExtractorDone /\ ret.kind = "return") =>
        /\ NoDuplicates(ret.val)
        /\ ValidEmbeddedList => ret.val = Dedup(StripNonEmpty(EmbeddedList.items))

\* C7: for every parsed document, also one whose embedded block is malformed,
\* is no JSON object or carries properties of unexpected types, a field
\* extractor returns a value and raises no exception.
C7_ExtractorsNeverRaise ==
    (fn \in {"title", "ingredients", "instructions"} /\ pc = "done") => ret.kind = "return"

\* C8: every failure extract_recipe_data or extract_recipe_from_image raises to
\* its caller carries one of the engine's own messages, never the exception of
\* an underlying library or of the provider.
C8_OnlyEngineMessages ==
    (fn \in {"page", "scan"} /\ pc = "done" /\ ret.kind = "raise") => ret.exc.origin = "engine"

\* what a title strategy yields: a text that is not empty, or nothing
Yields(present, text) == present /\ text # <<>>

\* the title the cascade of C9 gives
CascadeTitle(soup) ==
    LET ld == JsonLdData(soup)
    IN  IF ld.found /\ ld.data.type = "Recipe" /\ Truthy(ld.data.name) THEN ld.data.name
        ELSE IF Yields(soup.og_title.present, soup.og_title.s) THEN StrValue(soup.og_title.s)
        ELSE IF Yields(soup.h1.present, Strip(soup.h1.s)) THEN StrValue(Strip(soup.h1.s))
        ELSE IF Yields(soup.title.present, Strip(soup.title.s)) THEN StrValue(Strip(soup.title.s))
        ELSE StrValue(RecipeLiteral)

\* C9: extract_title returns the title of the first strategy that yields one
\* (name of the Recipe block, og:title, first h1, title element); a strategy
\* that yields no title, absent or empty, hands over to the next one, and the
\* literal "Recipe" is returned exactly when none yields a title.
C9_TitleCascade ==
    (fn = "title" /\ pc = "done") => ret = Return(CascadeTitle(arg))

StripLeadingWww(host) ==
    IF StartsWith(host, <<"w", "w", "w", ".">>) THEN Drop(host, 4) ELSE host

\* C10: the source of the record extract_recipe_data returns is the host name
\* with only a leading "www." removed, cut at its first label and capitalized;
\* the source of the record the vision pipeline returns is the caller's label.
C10_SourceDerivation ==
    /\ (PageDone /\ ret.kind = "return") =>
          ret.val.source = Capitalize(SplitFirst(StripLeadingWww(arg.netloc), "."))
    /\ (fn = "scan" /\ pc = "done" /\ ret.kind = "return") => ret.val.source = arg.author

\* the embedded strategy of the running extractor was entered and an error was
\* swallowed while it read recipeIngredient or walked the recipeInstructions steps
EmbeddedFailedPartWay ==
    /\ JsonLdData(arg).found
    /\ JsonLdData(arg).data.type = "Recipe"
    /\ Truthy(EmbeddedList)
    /\ IF fn = "ingredients" THEN ~ReadRecipeIngredient(EmbeddedList).ok
       ELSE ~ReadRecipeInstructions(EmbeddedList).ok

\* the same document without its embedded block
WithoutEmbeddedBlock(soup) == [soup EXCEPT !.ld = JsonLd("none", NoObject)]

\* what the DOM heuristic alone yields for the document (or the placeholder)
DomOnly ==
    IF fn = "ingredients" THEN extract_ingredients(WithoutEmbeddedBlock(arg))
    ELSE extract_instructions(WithoutEmbeddedBlock(arg))

\* C11: when the embedded-metadata strategy of extract_ingredients or
\* extract_instructions fails part-way, the list returned is exactly the list
\* the DOM heuristic yields for the same document without the embedded block
\* (or the placeholder): no entry read from the embedded block appears in it.
C11_FailedEmbeddedLeavesNoEntries ==
    (ListExtractorDone /\ EmbeddedFailedPartWay /\ ret.kind = "return") => ret = DomOnly

====
